---- MODULE Spec2Model ----
(***************************************************************************)
(* One run of main() of scrapperv1.py: credential acquisition, the annual  *)
(* views queries, the resolution of the uploads playlist, the paginated    *)
(* listing, the batched statistics, the rankings and the snapshot.         *)
(*                                                                         *)
(* A remote call "fails" when execute() raises HttpError, the exception    *)
(* the handlers of lines 200, 231, 283 and 335 name.  Text values (the     *)
(* timestamps, the durations, the counters of the statistics) are          *)
(* sequences of one-character strings.  A Python dict is a sequence of     *)
(* [k, v] records in insertion order.                                      *)
(***************************************************************************)
EXTENDS Integers, Sequences, FiniteSets, TLC

\* ---------------------------------------------------------------- bounds
\* datetime.now().year of line 440 and config["years_to_analyze"]
CurrentYear == 2024
YearsToAnalyze == 1
\* the largest number of items the uploads playlist serves over all pages
MaxListed == 2
\* the largest number of items in one page (maxResults caps it at 50)
MaxPageItems == 1

\* the longest list of identifiers get_video_stats is given in StatsSpec
MaxIds == 4

\* the batch size of line 302 (50 in the source, scaled down so that a
\* list of MaxListed identifiers spans more than one batch)
BatchSize == 2
\* limit of get_top_videos (5 in the source, scaled down with the catalog)
TopLimit == 2

StartYear == CurrentYear - YearsToAnalyze
EndYear == CurrentYear
Years == StartYear..EndYear

\* ------------------------------------------------------- text and dicts
Digits == <<"0", "1", "2", "3", "4", "5", "6", "7", "8", "9">>
IsDigit(c) == \E d \in 1..10 : Digits[d] = c
DigitVal(c) == (CHOOSE d \in 1..10 : Digits[d] = c) - 1

RECURSIVE DecVal(_)
DecVal(s) == IF Len(s) = 0 THEN 0
             ELSE 10 * DecVal(SubSeq(s, 1, Len(s) - 1)) + DigitVal(s[Len(s)])

\* int(text): the value of a non-empty run of digits, ValueError otherwise
PyInt(s) ==
    IF Len(s) > 0 /\ \A k \in 1..Len(s) : IsDigit(s[k])
    THEN [raised |-> FALSE, value |-> DecVal(s)]
    ELSE [raised |-> TRUE, value |-> 0]

\* str.find(ch): the 0-based index of the first occurrence, or -1
Find(s, ch) ==
    IF \E k \in 1..Len(s) : s[k] = ch
    THEN (CHOOSE k \in 1..Len(s) : s[k] = ch /\ \A j \in 1..(k - 1) : s[j] # ch) - 1
    ELSE -1

\* s[:n] and s[n:]
Prefix(s, n) == SubSeq(s, 1, IF n < Len(s) THEN n ELSE Len(s))
Suffix(s, n) == SubSeq(s, n + 1, Len(s))

HasKey(d, k) == \E n \in 1..Len(d) : d[n].k = k
KeyIndex(d, k) == CHOOSE n \in 1..Len(d) : d[n].k = k
Get(d, k) == d[KeyIndex(d, k)].v
Keys(d) == {d[n].k : n \in 1..Len(d)}
\* d[k] = v : a new key goes last, an existing key keeps its place
Put(d, k, v) ==
    IF HasKey(d, k) THEN [d EXCEPT ![KeyIndex(d, k)] = [k |-> k, v |-> v]]
    ELSE Append(d, [k |-> k, v |-> v])

RECURSIVE Update(_, _)
\* d.update(e)
Update(d, e) == IF Len(e) = 0 THEN d
                ELSE Update(Put(d, e[1].k, e[1].v), Tail(e))

\* an optional field of a response: <<>> when absent, <<x>> when present
Absent == <<>>
Some(x) == <<x>>
GetOr(field, default) == IF Len(field) = 0 THEN default ELSE field[1]

\* ------------------------------------------------------- parse_duration
\* parse_duration without the cuts of lines 364 and 370: every marker is
\* looked for in the whole text
ParseDuration_KeepsSpan(duration_iso) ==
    LET t0 == Suffix(duration_iso, 2)
        h_pos == Find(t0, "H")
        hours == IF h_pos # -1 THEN PyInt(Prefix(t0, h_pos))
                 ELSE [raised |-> FALSE, value |-> 0]
        m_pos == Find(t0, "M")
        minutes == IF m_pos # -1 THEN PyInt(Prefix(t0, m_pos))
                   ELSE [raised |-> FALSE, value |-> 0]
        s_pos == Find(t0, "S")
        seconds == IF s_pos # -1 THEN PyInt(Prefix(t0, s_pos))
                   ELSE [raised |-> FALSE, value |-> 0]
    IN  IF hours.raised \/ minutes.raised \/ seconds.raised
        THEN [raised |-> TRUE, value |-> 0]
        ELSE [raised |-> FALSE,
              value |-> hours.value * 3600 + minutes.value * 60 + seconds.value]

\* the result of parse_duration: the seconds, or the ValueError of an int()
ParseDuration(duration_iso) ==
    LET t0 == Suffix(duration_iso, 2)
        h_pos == Find(t0, "H")
        hours == IF h_pos # -1 THEN PyInt(Prefix(t0, h_pos))
                 ELSE [raised |-> FALSE, value |-> 0]
        t1 == IF h_pos # -1 THEN Suffix(t0, h_pos + 1) ELSE t0
        m_pos == Find(t1, "M")
        minutes == IF m_pos # -1 THEN PyInt(Prefix(t1, m_pos))
                   ELSE [raised |-> FALSE, value |-> 0]
        t2 == IF m_pos # -1 THEN Suffix(t1, m_pos + 1) ELSE t1
        s_pos == Find(t2, "S")
        seconds == IF s_pos # -1 THEN PyInt(Prefix(t2, s_pos))
                   ELSE [raised |-> FALSE, value |-> 0]
    IN  IF hours.raised \/ minutes.raised \/ seconds.raised
        THEN [raised |-> TRUE, value |-> 0]
        ELSE [raised |-> FALSE,
              value |-> hours.value * 3600 + minutes.value * 60 + seconds.value]

\* ------------------------------------------------------------ the remote
\* the catalog surface: the items the remote holds, by video identifier
Videos == {"v1", "v2", "v3"}
Catalog(v) ==
    CASE v = "v1" -> [id |-> "v1", title |-> "a",
                      viewCount |-> Some(<<"1", "2">>), likeCount |-> Some(<<"3">>),
                      commentCount |-> Absent,
                      duration |-> Some(<<"P", "T", "1", "H", "2", "M">>),
                      publishedAt |-> <<"2", "0", "2", "2", "-", "0", "7">>,
                      thumbnail |-> Some("u1")]
      [] v = "v2" -> [id |-> "v2", title |-> "b",
                      viewCount |-> Some(<<"1", "2">>), likeCount |-> Some(<<"5">>),
                      commentCount |-> Some(<<"1">>),
                      duration |-> Absent,
                      publishedAt |-> <<"2", "0", "2", "3", "-", "0", "1">>,
                      thumbnail |-> Absent]
      [] v = "v3" -> [id |-> "v3", title |-> "c",
                      viewCount |-> Some(<<"7">>), likeCount |-> Absent,
                      commentCount |-> Some(<<"4">>),
                      duration |-> Some(<<"P", "1", "D", "T", "2", "H">>),
                      publishedAt |-> <<"2", "0", "2", "2", "-", "1", "2">>,
                      thumbnail |-> Some("u3")]
      [] v = "v4" -> [id |-> "v4", title |-> "d",
                      viewCount |-> Some(<<"1", "2">>), likeCount |-> Some(<<"9">>),
                      commentCount |-> Some(<<"0">>),
                      duration |-> Some(<<"P", "T", "4", "5", "S">>),
                      publishedAt |-> <<"2", "0", "2", "3", "-", "0", "5">>,
                      thumbnail |-> Some("u4")]

\* the identifiers a list given to get_video_stats in StatsSpec is made of
StatsVideos == Videos \cup {"v4"}

\* the continuation cursors the remote hands out, and the totals it reports
Cursors == {"c1", "c2"}
NoCursor == "None"
Totals == {7}

\* the sequences over S of length at most n
SeqsUpTo(S, n) == UNION {[1..m -> S] : m \in 0..n}

RECURSIVE SubSeqs(_)
\* the subsequences of s (the items of a batch the remote answers for)
SubSeqs(s) ==
    IF Len(s) = 0 THEN {<<>>}
    ELSE LET rest == SubSeqs(Tail(s))
         IN  rest \cup {<<s[1]>> \o r : r \in rest}

\* ------------------------------------------------------------- the state
VARIABLES
    pc,                  \* the place of main: the stage about to run
    outcome,             \* how the run ended: "running", "written", or the cause
    tokenFile,           \* the token storage
    clientSecretsExists, \* os.path.exists(client_secrets_path)
    creds,               \* creds of get_authenticated_services
    services,            \* the credential the two services were built with
    refreshes,           \* creds.refresh calls made
    consents,            \* run_local_server calls made
    remoteCalls,         \* the surfaces called so far
    stageLog,            \* the stages in the order they first acted
    year,                \* the loop variable of get_annual_views
    annual_views,        \* year -> total
    reported,            \* year -> what the reporting call of that year gave
    uploads_playlist_id,
    videos_by_year,      \* dict year -> list of identifiers
    nextPageToken,
    served,              \* the items of the pages served so far, in order
    lastPage,            \* the latest page call: "none", "fail", "cursor", "end"
    pageCalls,           \* page calls issued, counted up to 2
    sentToken,           \* pageToken of the latest page call
    respToken,           \* the cursor of the latest response of the remote
    respBefore,          \* the value of respToken when the latest call was issued
    slept,               \* the delay was slept since the latest response
    sleptBefore,         \* the value of slept when the latest call was issued
    bucket,              \* index of the year bucket get_video_stats works on
    i,                   \* offset of the next batch in that bucket
    stats,               \* stats of get_video_stats
    year_stats,          \* what the latest get_video_stats returned (line 487)
    requested,           \* the batches the current get_video_stats asked for
    batchResult,         \* the latest batch call: "none", "fail", "ok", "raised"
    statsSlept,          \* the delay was slept after the latest batch call
    all_video_stats,
    channel_data,
    outputFile,          \* the output snapshot
    saves,               \* writes of the output snapshot
    duration_iso,        \* the argument of a call of parse_duration alone
    duration_parts,      \* the form and the components it was written from
    duration_seconds,    \* its result
    rank_stats,          \* the stats argument of a call of get_top_videos alone
    rank_result          \* its metric and result

authVars == <<tokenFile, clientSecretsExists, creds, services, refreshes, consents>>
annualVars == <<year, annual_views, reported>>
listVars == <<videos_by_year, nextPageToken, served, lastPage, pageCalls,
              sentToken, respToken, respBefore, slept, sleptBefore>>
statsVars == <<bucket, i, stats, year_stats, requested, batchResult, statsSlept,
               all_video_stats>>
outVars == <<channel_data, outputFile, saves>>
pureVars == <<duration_iso, duration_parts, duration_seconds, rank_stats,
              rank_result>>
vars == <<pc, outcome, authVars, remoteCalls, stageLog, annualVars,
          uploads_playlist_id, listVars, statsVars, outVars, pureVars>>

\* ---------------------------------------------------------- credentials
NoCreds == [loaded |-> FALSE, token |-> FALSE, expired |-> FALSE,
            refresh_token |-> FALSE, origin |-> "none"]
StoredCreds == [loaded : {TRUE}, token : BOOLEAN, expired : BOOLEAN,
                refresh_token : BOOLEAN, origin : {"stored"}]
RefreshedCreds == [loaded |-> TRUE, token |-> TRUE, expired |-> FALSE,
                   refresh_token |-> TRUE, origin |-> "refreshed"]
ConsentCreds == [loaded |-> TRUE, token |-> TRUE, expired |-> FALSE,
                 refresh_token |-> TRUE, origin |-> "consent"]

\* the token storage: no file, a file that does not load, or a credential
TokenFiles == {[state |-> "absent", cred |-> NoCreds],
               [state |-> "unloadable", cred |-> NoCreds]}
              \cup [state : {"cred"}, cred : StoredCreds]

\* Credentials.valid: a token is present and it has not expired
Valid(c) == c.token /\ ~c.expired

\* lines 105-112: the credential loaded from the token storage, or None
LoadCreds(file) == IF file.state = "cred" THEN file.cred ELSE NoCreds

\* line 115
NeedsNew(c) == ~c.loaded \/ ~Valid(c)
\* line 116
CanRefresh(c) == c.loaded /\ c.expired /\ c.refresh_token
\* line 123
NeedsConsent(c) == ~c.loaded

\* every run asks for consent, whatever was loaded
AfterLoad_ConsentAlways(c) == "auth_consent"

\* where get_authenticated_services goes once creds is loaded
AfterLoad(c) ==
    IF NeedsNew(c)
    THEN IF CanRefresh(c) THEN "auth_refresh"
         ELSE IF NeedsConsent(c) THEN "auth_consent" ELSE "auth_build"
    ELSE "auth_build"

\* the refresh without the test of line 123: the services are built next
AfterRefresh_Build(c) == "auth_build"

\* where it goes after the refresh of lines 117-121
AfterRefresh(c) == IF NeedsConsent(c) THEN "auth_consent" ELSE "auth_build"

\* the consent flow started before the client-identity file is looked for
ConsentFlow_FlowFirst(exists, flowOk, file) ==
    IF ~exists
    THEN [raised |-> "FileNotFoundError", flows |-> 1, creds |-> NoCreds,
          file |-> file]
    ELSE IF ~flowOk
    THEN [raised |-> "ConsentError", flows |-> 1, creds |-> NoCreds, file |-> file]
    ELSE [raised |-> "none", flows |-> 1, creds |-> ConsentCreds,
          file |-> [state |-> "cred", cred |-> ConsentCreds]]

\* lines 124-149: exists is os.path.exists(client_secrets_path), flowOk
\* tells whether run_local_server returns; what it raises goes to main
ConsentFlow(exists, flowOk, file) ==
    IF ~exists
    THEN [raised |-> "FileNotFoundError", flows |-> 0, creds |-> NoCreds,
          file |-> file]
    ELSE IF ~flowOk
    THEN [raised |-> "ConsentError", flows |-> 1, creds |-> NoCreds, file |-> file]
    ELSE [raised |-> "none", flows |-> 1, creds |-> ConsentCreds,
          file |-> [state |-> "cred", cred |-> ConsentCreds]]

\* the stages of main, in the order of its statements
StageLogged(log, stage) ==
    IF Len(log) > 0 /\ log[Len(log)] = stage THEN log ELSE Append(log, stage)

\* main with the annual views queried after the playlist is resolved
Then_AnnualAfterPlaylist(stage) ==
    CASE stage = "auth" -> "playlist"
      [] stage = "playlist" -> "annual"
      [] stage = "annual" -> "listing"
      [] stage = "listing" -> "stats"
      [] stage = "stats" -> "aggregate"
      [] stage = "aggregate" -> "save"
      [] stage = "save" -> "done"

\* the statement of main that follows a stage that ended normally
Then(stage) ==
    CASE stage = "auth" -> "annual"
      [] stage = "annual" -> "playlist"
      [] stage = "playlist" -> "listing"
      [] stage = "listing" -> "stats"
      [] stage = "stats" -> "aggregate"
      [] stage = "aggregate" -> "save"
      [] stage = "save" -> "done"

\* lines 445-452
EmptyData == [annual_views |-> <<>>, videos_by_year |-> <<>>,
              video_stats |-> <<>>, top_videos |-> <<>>]

\* get_video_stats not yet called
StatsFresh ==
    /\ bucket = 1
    /\ i = 0
    /\ stats = <<>>
    /\ year_stats = <<>>
    /\ requested = <<>>
    /\ batchResult = "none"
    /\ statsSlept = FALSE
    /\ all_video_stats = <<>>

\* no call of parse_duration or get_top_videos on its own
NotCalled == [done |-> FALSE, raised |-> FALSE, value |-> 0]
NoParts == [form |-> "none", h |-> <<>>, m |-> <<>>, s |-> <<>>]
ParseIdle ==
    /\ duration_iso = <<>>
    /\ duration_parts = NoParts
    /\ duration_seconds = NotCalled
NotRanked == [metric |-> "none", top |-> <<>>]
RankIdle ==
    /\ rank_stats = <<>>
    /\ rank_result = NotRanked
PureIdle == ParseIdle /\ RankIdle

Init ==
    /\ pc = "auth_load"
    /\ outcome = "running"
    /\ tokenFile \in TokenFiles
    /\ clientSecretsExists \in BOOLEAN
    /\ creds = NoCreds
    /\ services = [built |-> FALSE, creds |-> NoCreds]
    /\ refreshes = 0
    /\ consents = 0
    /\ remoteCalls = {}
    /\ stageLog = <<>>
    /\ year = StartYear
    /\ annual_views = <<>>
    /\ reported = <<>>
    /\ uploads_playlist_id = "None"
    /\ videos_by_year = <<>>
    /\ nextPageToken = NoCursor
    /\ served = <<>>
    /\ lastPage = "none"
    /\ pageCalls = 0
    /\ sentToken = NoCursor
    /\ respToken = NoCursor
    /\ respBefore = NoCursor
    /\ slept = FALSE
    /\ sleptBefore = FALSE
    /\ StatsFresh
    /\ channel_data = EmptyData
    /\ outputFile = [content |-> "prior", data |-> EmptyData]
    /\ saves = 0
    /\ PureIdle

\* ------------------------------------------- get_authenticated_services
\* lines 98-112 and the tests of lines 115, 116 and 123
AuthLoad ==
    /\ pc = "auth_load"
    /\ creds' = LoadCreds(tokenFile)
    /\ pc' = AfterLoad(creds')
    /\ stageLog' = StageLogged(stageLog, "auth")
    /\ UNCHANGED pureVars
    /\ UNCHANGED <<outcome, tokenFile, clientSecretsExists, services, refreshes,
                   consents, remoteCalls, annualVars, uploads_playlist_id,
                   listVars, statsVars, outVars>>

\* lines 117-121: creds.refresh(Request()) returns or raises
AuthRefresh ==
    /\ pc = "auth_refresh"
    /\ \E ok \in BOOLEAN :
         creds' = IF ok THEN RefreshedCreds ELSE NoCreds
    /\ refreshes' = refreshes + 1
    /\ pc' = AfterRefresh(creds')
    /\ stageLog' = StageLogged(stageLog, "auth")
    /\ UNCHANGED pureVars
    /\ UNCHANGED <<outcome, tokenFile, clientSecretsExists, services, consents,
                   remoteCalls, annualVars, uploads_playlist_id, listVars,
                   statsVars, outVars>>

\* lines 123-149; an exception goes through line 149 to line 526
AuthConsent ==
    /\ pc = "auth_consent"
    /\ \E flowOk \in BOOLEAN :
         LET r == ConsentFlow(clientSecretsExists, flowOk, tokenFile)
         IN  /\ consents' = consents + r.flows
             /\ creds' = r.creds
             /\ tokenFile' = r.file
             /\ pc' = IF r.raised = "none" THEN "auth_build" ELSE "aborted"
             /\ outcome' = CASE r.raised = "none" -> outcome
                             [] r.raised = "FileNotFoundError" -> "config_error"
                             [] OTHER -> "auth_error"
    /\ stageLog' = StageLogged(stageLog, "auth")
    /\ UNCHANGED pureVars
    /\ UNCHANGED <<clientSecretsExists, services, refreshes, remoteCalls,
                   annualVars, uploads_playlist_id, listVars, statsVars, outVars>>

\* lines 151-166, then lines 440-452 of main
AuthBuild ==
    /\ pc = "auth_build"
    /\ \E ok \in BOOLEAN :
         IF ok
         THEN /\ services' = [built |-> TRUE, creds |-> creds]
              /\ pc' = Then("auth")
              /\ outcome' = outcome
         ELSE /\ services' = services
              /\ pc' = "aborted"
              /\ outcome' = "auth_error"
    /\ stageLog' = StageLogged(stageLog, "auth")
    /\ UNCHANGED pureVars
    /\ UNCHANGED <<tokenFile, clientSecretsExists, creds, refreshes, consents,
                   remoteCalls, annualVars, uploads_playlist_id, listVars,
                   statsVars, outVars>>

\* ----------------------------------------------------- get_annual_views
\* what reports().query(...).execute() gives: HttpError, a report with no
\* "rows" field, one whose rows are [], or one whose first row holds a total
ReportResponses ==
    {[kind |-> k, total |-> 0] : k \in {"fail", "norows", "emptyrows"}}
    \cup {[kind |-> "rows", total |-> t] : t \in Totals}

\* get_annual_views without the handler of lines 200-202
AnnualEntry_NoHandler(resp) ==
    CASE resp.kind = "fail" -> [raised |-> "HttpError", views |-> 0, sleeps |-> FALSE]
      [] resp.kind = "norows" -> [raised |-> "none", views |-> 0, sleeps |-> TRUE]
      [] resp.kind = "emptyrows" ->
            [raised |-> "IndexError", views |-> 0, sleeps |-> FALSE]
      [] resp.kind = "rows" ->
            [raised |-> "none", views |-> resp.total, sleeps |-> TRUE]

\* lines 187-202 for one year: the entry annual_views gets, whether the
\* delay is slept, and the exception that leaves the function
AnnualEntry(resp) ==
    CASE resp.kind = "fail" -> [raised |-> "none", views |-> 0, sleeps |-> FALSE]
      [] resp.kind = "norows" -> [raised |-> "none", views |-> 0, sleeps |-> TRUE]
      [] resp.kind = "emptyrows" ->
            [raised |-> "IndexError", views |-> 0, sleeps |-> FALSE]
      [] resp.kind = "rows" ->
            [raised |-> "none", views |-> resp.total, sleeps |-> TRUE]

\* one iteration of the loop of line 184; after the last year, line 463
AnnualQuery ==
    /\ pc = "annual"
    /\ year <= EndYear
    /\ \E resp \in ReportResponses :
         LET e == AnnualEntry(resp)
         IN  /\ reported' = (year :> resp) @@ reported
             /\ IF e.raised = "none"
                THEN /\ annual_views' = (year :> e.views) @@ annual_views
                     /\ year' = year + 1
                     /\ pc' = IF year = EndYear THEN Then("annual") ELSE "annual"
                     /\ channel_data' =
                          IF year = EndYear
                          THEN [channel_data EXCEPT !.annual_views = annual_views']
                          ELSE channel_data
                     /\ outcome' = outcome
                ELSE /\ pc' = "aborted"
                     /\ outcome' = e.raised
                     /\ UNCHANGED <<annual_views, year, channel_data>>
    /\ remoteCalls' = remoteCalls \cup {"reporting"}
    /\ stageLog' = StageLogged(stageLog, "annual views")
    /\ UNCHANGED pureVars
    /\ UNCHANGED <<authVars, uploads_playlist_id, listVars, statsVars,
                   outputFile, saves>>

\* ----------------------------------------- get_channel_uploads_playlist
\* lines 217-233: None when the call fails or the response has no items
UploadsPlaylist(resp) == IF resp = "ok" THEN "UU" ELSE "None"

\* main without the return of line 471
AfterPlaylist_NoReturn(id) == Then("playlist")

\* lines 467-471 of main: a missing playlist ends the run by return
AfterPlaylist(id) == IF id = "None" THEN "done" ELSE Then("playlist")

ResolvePlaylist ==
    /\ pc = "playlist"
    /\ \E resp \in {"fail", "noitems", "ok"} :
         uploads_playlist_id' = UploadsPlaylist(resp)
    /\ pc' = AfterPlaylist(uploads_playlist_id')
    /\ outcome' = IF uploads_playlist_id' = "None" THEN "no_playlist" ELSE outcome
    /\ remoteCalls' = remoteCalls \cup {"catalog"}
    /\ stageLog' = StageLogged(stageLog, "playlist")
    /\ UNCHANGED pureVars
    /\ UNCHANGED <<authVars, annualVars, listVars, statsVars, outVars>>

\* --------------------------------------------------- get_videos_by_year
\* the bucket key taken from the year and the month: published_at[:7]
YearOf_Month(published_at) == Prefix(published_at, 7)

\* line 266
YearOf(published_at) == Prefix(published_at, 4)

RECURSIVE BucketItems(_, _)
\* lines 263-272: the items of one page put in their year buckets
BucketItems(vby, items) ==
    IF Len(items) = 0 THEN vby
    ELSE LET y == YearOf(Catalog(items[1]).publishedAt)
             old == IF HasKey(vby, y) THEN Get(vby, y) ELSE <<>>
         IN  BucketItems(Put(vby, y, Append(old, items[1])), Tail(items))

\* the loop of line 254 without the break of line 277
MorePages_Always(token) == TRUE

\* line 276
MorePages(token) == token # NoCursor

\* every call asks for the first page
PageTokenArg_FirstPage(token) == NoCursor

\* line 259: the pageToken a call carries
PageTokenArg(token) == token

\* get_videos_by_year without the handler of lines 283-285
ListingOnHttpError_Propagates(vby) == [raised |-> "HttpError", result |-> vby]

\* lines 283-285: what the caller gets when a page call raises HttpError
ListingOnHttpError(vby) == [raised |-> "none", result |-> vby]

\* where main goes with the listing returned (lines 478-483)
AfterListing(vby) == IF Len(vby) = 0 THEN Then("stats") ELSE Then("listing")

\* the pages the remote may serve: some items and perhaps a cursor
Pages == [items : SeqsUpTo(Videos, MaxPageItems), token : Cursors \cup {NoCursor}]

\* one iteration of the loop of line 254: the call, the items, the cursor
\* and the delay; on return, line 478
PageCall ==
    /\ pc = "listing"
    /\ sentToken' = PageTokenArg(nextPageToken)
    /\ respBefore' = respToken
    /\ sleptBefore' = slept
    /\ pageCalls' = IF pageCalls < 2 THEN pageCalls + 1 ELSE 2
    /\ \/ \E page \in Pages :
            /\ Len(served) + Len(page.items) <= MaxListed
            /\ served' = served \o page.items
            /\ respToken' = page.token
            /\ lastPage' = IF page.token = NoCursor THEN "end" ELSE "cursor"
            /\ videos_by_year' = BucketItems(videos_by_year, page.items)
            /\ nextPageToken' = page.token
            /\ IF MorePages(page.token)
               THEN /\ slept' = TRUE
                    /\ pc' = "listing"
                    /\ channel_data' = channel_data
               ELSE /\ slept' = FALSE
                    /\ pc' = AfterListing(videos_by_year')
                    /\ channel_data' =
                         [channel_data EXCEPT !.videos_by_year = videos_by_year']
            /\ outcome' = outcome
       \/ LET r == ListingOnHttpError(videos_by_year)
          IN  /\ lastPage' = "fail"
              /\ respToken' = NoCursor
              /\ slept' = FALSE
              /\ UNCHANGED <<served, nextPageToken>>
              /\ videos_by_year' = r.result
              /\ pc' = IF r.raised = "none" THEN AfterListing(r.result)
                       ELSE "aborted"
              /\ outcome' = IF r.raised = "none" THEN outcome ELSE r.raised
              /\ channel_data' =
                   IF r.raised = "none"
                   THEN [channel_data EXCEPT !.videos_by_year = r.result]
                   ELSE channel_data
    /\ remoteCalls' = remoteCalls \cup {"catalog"}
    /\ stageLog' = StageLogged(stageLog, "listing")
    /\ UNCHANGED pureVars
    /\ UNCHANGED <<authVars, annualVars, uploads_playlist_id, statsVars,
                   outputFile, saves>>

\* ------------------------------------------------------ get_video_stats
\* int(statistics.get(name, 0))
CountOf(field) == IF Len(field) = 0 THEN [raised |-> FALSE, value |-> 0]
                  ELSE PyInt(field[1])

\* lines 313-331: the record of one item, or the ValueError of a conversion
BuildRecord(item) ==
    LET views == CountOf(item.viewCount)
        likes == CountOf(item.likeCount)
        comments == CountOf(item.commentCount)
        duration == ParseDuration(GetOr(item.duration, <<"P", "T", "0", "S">>))
    IN  [raised |-> duration.raised \/ views.raised \/ likes.raised
                    \/ comments.raised,
         rec |-> [title |-> item.title, views |-> views.value,
                  likes |-> likes.value, comments |-> comments.value,
                  duration |-> duration.value,
                  published_at |-> item.publishedAt,
                  thumbnail |-> GetOr(item.thumbnail, "")]]

RECURSIVE ProcessItems(_, _)
\* the loop of line 312 over the items of one response
ProcessItems(st, ids) ==
    IF Len(ids) = 0 THEN [raised |-> FALSE, stats |-> st]
    ELSE LET b == BuildRecord(Catalog(ids[1]))
         IN  IF b.raised THEN [raised |-> TRUE, stats |-> st]
             ELSE ProcessItems(Put(st, ids[1], b.rec), Tail(ids))

\* batches that overlap by one identifier: video_ids[i:i+51]
Batch_Overlap(video_ids, offset) ==
    SubSeq(video_ids, offset + 1,
           IF offset + BatchSize + 1 < Len(video_ids) THEN offset + BatchSize + 1
           ELSE Len(video_ids))

\* line 303: video_ids[i:i+50]
Batch(video_ids, offset) ==
    SubSeq(video_ids, offset + 1,
           IF offset + BatchSize < Len(video_ids) THEN offset + BatchSize
           ELSE Len(video_ids))

\* a failed batch call empties the result
BatchOnHttpError_Drops(st) == [raised |-> FALSE, stats |-> <<>>]

\* lines 335-336: what get_video_stats goes on with when a batch call
\* raises HttpError
BatchOnHttpError(st) == [raised |-> FALSE, stats |-> st]

\* line 333 stands in the try block: the delay is slept after a batch call
\* that was answered and handled, not after one that raised
BatchSleeps(failed) == ~failed

\* one iteration of the loop of line 302 for the bucket main is at (line
\* 483): a batch call that raises HttpError or answers for some of the
\* identifiers asked; after the last batch lines 338 and 492, after the
\* last bucket line 494
StatsBatch ==
    /\ pc = "stats"
    /\ bucket <= Len(videos_by_year)
    /\ LET video_ids == videos_by_year[bucket].v
           batch == Batch(video_ids, i)
           lastBatch == i + BatchSize >= Len(video_ids)
           lastBucket == bucket = Len(videos_by_year)
       IN  /\ requested' = IF i = 0 THEN <<batch>> ELSE Append(requested, batch)
           /\ \E failed \in BOOLEAN : \E answered \in SubSeqs(batch) :
                LET r == IF failed THEN BatchOnHttpError(stats)
                         ELSE ProcessItems(stats, answered)
                IN  /\ failed => answered = <<>>
                    /\ IF r.raised
                       THEN /\ pc' = "aborted"
                            /\ outcome' = "ValueError"
                            /\ batchResult' = "raised"
                            /\ statsSlept' = FALSE
                            /\ UNCHANGED <<bucket, i, stats, year_stats,
                                           all_video_stats, channel_data>>
                       ELSE /\ outcome' = outcome
                            /\ batchResult' = IF failed THEN "fail" ELSE "ok"
                            /\ statsSlept' = BatchSleeps(failed)
                            /\ stats' = IF lastBatch THEN <<>> ELSE r.stats
                            /\ year_stats' = IF lastBatch THEN r.stats
                                             ELSE year_stats
                            /\ i' = IF lastBatch THEN 0 ELSE i + BatchSize
                            /\ bucket' = IF lastBatch THEN bucket + 1 ELSE bucket
                            /\ all_video_stats' =
                                 IF lastBatch THEN Update(all_video_stats, r.stats)
                                 ELSE all_video_stats
                            /\ pc' = IF lastBatch /\ lastBucket THEN Then("stats")
                                     ELSE "stats"
                            /\ channel_data' =
                                 IF lastBatch /\ lastBucket
                                 THEN [channel_data EXCEPT
                                         !.video_stats = all_video_stats']
                                 ELSE channel_data
    /\ remoteCalls' = remoteCalls \cup {"catalog"}
    /\ stageLog' = StageLogged(stageLog, "stats")
    /\ UNCHANGED pureVars
    /\ UNCHANGED <<authVars, annualVars, uploads_playlist_id, listVars,
                   outputFile, saves>>

\* ------------------------------------------------------- get_top_videos
Metrics == {"views", "likes", "comments"}
MetricOf(rec, metric) ==
    CASE metric = "views" -> rec.views
      [] metric = "likes" -> rec.likes
      [] metric = "comments" -> rec.comments

RECURSIVE SortedDesc_LastOfTies(_, _)
\* a descending sort that is not stable: of the entries with the largest
\* key the last goes first
SortedDesc_LastOfTies(d, metric) ==
    IF Len(d) = 0 THEN <<>>
    ELSE LET n == CHOOSE n \in 1..Len(d) :
                    /\ \A m \in 1..Len(d) :
                         MetricOf(d[m].v, metric) <= MetricOf(d[n].v, metric)
                    /\ \A m \in (n + 1)..Len(d) :
                         MetricOf(d[m].v, metric) < MetricOf(d[n].v, metric)
         IN  <<d[n]>> \o SortedDesc_LastOfTies(
                             SubSeq(d, 1, n - 1) \o SubSeq(d, n + 1, Len(d)), metric)

RECURSIVE SortedDesc(_, _)
\* sorted(stats.items(), key=..., reverse=True): the first of the entries
\* with the largest key goes first (the sort is stable)
SortedDesc(d, metric) ==
    IF Len(d) = 0 THEN <<>>
    ELSE LET n == CHOOSE n \in 1..Len(d) :
                    /\ \A m \in 1..Len(d) :
                         MetricOf(d[m].v, metric) <= MetricOf(d[n].v, metric)
                    /\ \A m \in 1..(n - 1) :
                         MetricOf(d[m].v, metric) < MetricOf(d[n].v, metric)
         IN  <<d[n]>> \o SortedDesc(SubSeq(d, 1, n - 1) \o SubSeq(d, n + 1, Len(d)),
                                    metric)

\* get_top_videos without the slice of line 400
TopVideos_NoLimit(d, metric) ==
    LET sorted_videos == SortedDesc(d, metric)
    IN  [n \in 1..Len(sorted_videos) |-> [video_id |-> sorted_videos[n].k,
                                          data |-> sorted_videos[n].v]]

\* lines 394-400, then the conversion of lines 505-508
TopVideos(d, metric) ==
    LET sorted_videos == SortedDesc(d, metric)
        top == Prefix(sorted_videos, TopLimit)
    IN  [n \in 1..Len(top) |-> [video_id |-> top[n].k, data |-> top[n].v]]

\* lines 498-510 of main
Aggregate ==
    /\ pc = "aggregate"
    /\ channel_data' =
         [channel_data EXCEPT
            !.top_videos = [views |-> TopVideos(all_video_stats, "views"),
                            likes |-> TopVideos(all_video_stats, "likes"),
                            comments |-> TopVideos(all_video_stats, "comments")]]
    /\ pc' = Then("aggregate")
    /\ stageLog' = StageLogged(stageLog, "aggregation")
    /\ UNCHANGED pureVars
    /\ UNCHANGED <<outcome, authVars, remoteCalls, annualVars,
                   uploads_playlist_id, listVars, statsVars, outputFile, saves>>

\* line 514, save_data_to_json (lines 410-413)
Save ==
    /\ pc = "save"
    /\ outputFile' = [content |-> "snapshot", data |-> channel_data]
    /\ saves' = saves + 1
    /\ pc' = Then("save")
    /\ outcome' = "written"
    /\ stageLog' = StageLogged(stageLog, "persistence")
    /\ UNCHANGED pureVars
    /\ UNCHANGED <<authVars, remoteCalls, annualVars, uploads_playlist_id,
                   listVars, statsVars, channel_data>>

Next ==
    \/ AuthLoad
    \/ AuthRefresh
    \/ AuthConsent
    \/ AuthBuild
    \/ AnnualQuery
    \/ ResolvePlaylist
    \/ PageCall
    \/ StatsBatch
    \/ Aggregate
    \/ Save

Spec == Init /\ [][Next]_vars

\* main past lines 437-471 in a run whose stored credential was valid,
\* whose reporting calls all gave a total and whose playlist was resolved
Resolved ==
    /\ outcome = "running"
    /\ tokenFile = [state |-> "cred",
                    cred |-> [loaded |-> TRUE, token |-> TRUE, expired |-> FALSE,
                              refresh_token |-> TRUE, origin |-> "stored"]]
    /\ clientSecretsExists = TRUE
    /\ creds = tokenFile.cred
    /\ services = [built |-> TRUE, creds |-> creds]
    /\ refreshes = 0
    /\ consents = 0
    /\ remoteCalls = {"reporting", "catalog"}
    /\ year = EndYear + 1
    /\ reported = [y \in Years |-> [kind |-> "rows", total |-> 7]]
    /\ annual_views = [y \in Years |-> 7]
    /\ uploads_playlist_id = "UU"
    /\ outputFile = [content |-> "prior", data |-> EmptyData]
    /\ saves = 0

\* get_videos_by_year and what follows it, from the state in which main
\* calls it (line 473)
InitList ==
    /\ pc = "listing"
    /\ Resolved
    /\ stageLog = <<"auth", "annual views", "playlist">>
    /\ videos_by_year = <<>>
    /\ nextPageToken = NoCursor
    /\ served = <<>>
    /\ lastPage = "none"
    /\ pageCalls = 0
    /\ sentToken = NoCursor
    /\ respToken = NoCursor
    /\ respBefore = NoCursor
    /\ slept = FALSE
    /\ sleptBefore = FALSE
    /\ StatsFresh
    /\ PureIdle
    /\ channel_data = [EmptyData EXCEPT !.annual_views = annual_views]

NextList ==
    \/ PageCall
    \/ StatsBatch
    \/ Aggregate
    \/ Save

\* the interpreter runs the next statement while one is left
FairListSpec == InitList /\ [][NextList]_vars /\ WF_vars(NextList)

\* get_video_stats and what follows it, from the state in which main
\* enters the loop of line 483 after a listing of one page that served the
\* identifiers of lst
InitStats ==
    /\ pc = "stats"
    /\ Resolved
    /\ stageLog = <<"auth", "annual views", "playlist", "listing">>
    /\ \E lst \in SeqsUpTo(StatsVideos, MaxIds) \ {<<>>} :
         /\ served = lst
         /\ videos_by_year = BucketItems(<<>>, lst)
    /\ nextPageToken = NoCursor
    /\ lastPage = "end"
    /\ pageCalls = 1
    /\ sentToken = NoCursor
    /\ respToken = NoCursor
    /\ respBefore = NoCursor
    /\ slept = FALSE
    /\ sleptBefore = FALSE
    /\ StatsFresh
    /\ PureIdle
    /\ channel_data = [EmptyData EXCEPT !.annual_views = annual_views,
                                        !.videos_by_year = videos_by_year]

NextStats ==
    \/ StatsBatch
    \/ Aggregate
    \/ Save

StatsSpec == InitStats /\ [][NextStats]_vars

\* ------------------------------------------- the pure functions alone
\* the pipeline at rest: what a call of parse_duration or get_top_videos
\* alone leaves as it is
Standby ==
    /\ pc = "standby"
    /\ Resolved
    /\ stageLog = <<>>
    /\ videos_by_year = <<>>
    /\ nextPageToken = NoCursor
    /\ served = <<>>
    /\ lastPage = "none"
    /\ pageCalls = 0
    /\ sentToken = NoCursor
    /\ respToken = NoCursor
    /\ respBefore = NoCursor
    /\ slept = FALSE
    /\ sleptBefore = FALSE
    /\ StatsFresh
    /\ channel_data = EmptyData

\* the numbers a component of a duration is written with
NumberTexts == {<<"0">>, <<"1">>, <<"2">>, <<"1", "5">>, <<"3", "0">>,
                <<"4", "5">>, <<"0", "7">>, <<"1", "0", "0">>}
Components == NumberTexts \cup {<<>>}
Part(number, marker) == IF number = <<>> THEN <<>> ELSE number \o <<marker>>
\* PT[hH][mM][sS]
EncodeHMS(h, m, s) == <<"P", "T">> \o Part(h, "H") \o Part(m, "M") \o Part(s, "S")
\* P<n>D or P<n>W, then T[hH][mM][sS] when a time component follows
EncodeDays(n, unit, h, m, s) ==
    <<"P">> \o n \o <<unit>>
    \o (IF h = <<>> /\ m = <<>> /\ s = <<>> THEN <<>>
        ELSE <<"T">> \o Part(h, "H") \o Part(m, "M") \o Part(s, "S"))
\* the longest text of no particular form, and the characters it is made of
MaxText == 3
TextChars == {"P", "T", "H", "M", "S", "D", "1", "5", "."}

\* a call of parse_duration with any of these texts
InitParse ==
    /\ Standby
    /\ RankIdle
    /\ duration_seconds = NotCalled
    /\ \/ \E h \in Components, m \in Components, s \in Components :
            /\ duration_iso = EncodeHMS(h, m, s)
            /\ duration_parts = [form |-> "hms", h |-> h, m |-> m, s |-> s]
       \/ \E n \in {<<"1">>, <<"1", "5">>}, unit \in {"D", "W"} :
          \E h \in Components, m \in Components, s \in Components :
            /\ duration_iso = EncodeDays(n, unit, h, m, s)
            /\ duration_parts = [form |-> "days", h |-> h, m |-> m, s |-> s]
       \/ /\ duration_iso \in SeqsUpTo(TextChars, MaxText)
          /\ duration_parts = [NoParts EXCEPT !.form = "other"]

\* lines 340-379
Parse ==
    /\ pc = "standby"
    /\ duration_parts.form # "none"
    /\ ~duration_seconds.done
    /\ LET r == ParseDuration(duration_iso)
       IN  duration_seconds' = [done |-> TRUE, raised |-> r.raised,
                                value |-> r.value]
    /\ UNCHANGED <<duration_iso, duration_parts, rank_stats, rank_result>>
    /\ UNCHANGED <<pc, outcome, remoteCalls, stageLog, authVars, annualVars,
                   uploads_playlist_id, listVars, statsVars, outVars>>

NextParse == Parse

ParseSpec == InitParse /\ [][NextParse]_vars

\* the most entries of a stats mapping get_top_videos is given alone
MaxRanked == 3
RankKeys == <<"v1", "v2", "v3", "v4", "v5">>
RankRecords == [title : {"t"}, views : 0..2, likes : 0..1, comments : 0..1]

\* a call of get_top_videos with any mapping of up to MaxRanked records
InitTop ==
    /\ Standby
    /\ ParseIdle
    /\ rank_result = NotRanked
    /\ \E recs \in SeqsUpTo(RankRecords, MaxRanked) :
         rank_stats = [n \in 1..Len(recs) |-> [k |-> RankKeys[n], v |-> recs[n]]]

\* lines 381-400 with the conversion of lines 505-508, for one metric
RankTop ==
    /\ pc = "standby"
    /\ rank_result.metric = "none"
    /\ \E metric \in Metrics :
         rank_result' = [metric |-> metric, top |-> TopVideos(rank_stats, metric)]
    /\ UNCHANGED <<duration_iso, duration_parts, duration_seconds, rank_stats>>
    /\ UNCHANGED <<pc, outcome, remoteCalls, stageLog, authVars, annualVars,
                   uploads_playlist_id, listVars, statsVars, outVars>>

NextTop == RankTop

TopSpec == InitTop /\ [][NextTop]_vars

TypeOK ==
    /\ pc \in {"auth_load", "auth_refresh", "auth_consent", "auth_build",
               "annual", "playlist", "listing", "stats", "aggregate", "save",
               "done", "aborted", "standby"}
    /\ pageCalls \in 0..2
    /\ batchResult \in {"none", "ok", "fail", "raised"}
    /\ duration_parts.form \in {"none", "hms", "days", "other"}
    /\ rank_result.metric \in Metrics \cup {"none"}
    /\ Len(served) <= MaxListed

\* ---------------------------------------------------------------- claims
Fatal == {"config_error", "auth_error", "no_playlist"}
Ended == pc \in {"done", "aborted"}
PriorFile == [content |-> "prior", data |-> EmptyData]

\* the served items published in year y, in the order served
ServedIn(y) == SelectSeq(served, LAMBDA v : YearOf(Catalog(v).publishedAt) = y)
ServedYears == {YearOf(Catalog(served[n]).publishedAt) : n \in 1..Len(served)}

\* C1: the credential the two services are built with is valid, whatever the
\* token storage held when the run began
C1_ServicesUseValidCredential == services.built => Valid(services.creds)

\* C2: when get_authenticated_services has returned with a credential that
\* came from the consent flow or from a refresh, the token storage holds
\* that credential
C2_PersistedAfterAcquireOrRefresh ==
    (services.built /\ services.creds.origin \in {"consent", "refreshed"})
        => tokenFile = [state |-> "cred", cred |-> services.creds]

\* C3: a run whose credential was valid and that ended for another reason
\* than a credential or configuration failure or an unresolved playlist has
\* reached the persistence step and written the snapshot
C3_OnlyFatalFailuresAbort ==
    (Ended /\ services.built /\ Valid(services.creds))
        => (outcome \in Fatal \/ (saves = 1 /\ outputFile.content = "snapshot"))

\* C4: after a credential failure or an unresolved playlist the run is over
\* and the snapshot file is as it was: nothing was written, the annual views
\* collected included
C4_FatalLeavesSnapshot ==
    outcome \in Fatal => (Ended /\ saves = 0 /\ outputFile = PriorFile)

C4_Witness ==
    /\ outcome = "no_playlist"
    /\ \E y \in DOMAIN annual_views : annual_views[y] > 0
    /\ outputFile = PriorFile

\* C5: with the client-identity file missing when the consent flow is
\* needed, the run aborts, and no reporting call, no catalog call and no
\* consent flow was made in that run
C5_MissingClientFile ==
    /\ [](outcome = "config_error"
            => (pc = "aborted" /\ remoteCalls = {} /\ consents = 0
                /\ ~services.built))
    /\ [][(pc = "auth_consent" /\ ~clientSecretsExists)
            => (pc' = "aborted" /\ outcome' = "config_error")]_vars

C5_Witness == outcome = "config_error" /\ refreshes = 1 /\ pc = "aborted"

Rank(stage) ==
    CASE stage = "auth" -> 1
      [] stage = "annual views" -> 2
      [] stage = "playlist" -> 3
      [] stage = "listing" -> 4
      [] stage = "stats" -> 5
      [] stage = "aggregation" -> 6
      [] stage = "persistence" -> 7

\* C6: the stages act in the order auth, annual views, playlist, listing,
\* stats, aggregation, persistence, none acting again once a later one has,
\* and the snapshot is written at most once, after the aggregation
C6_StageOrder ==
    /\ \A a, b \in 1..Len(stageLog) :
         a < b => Rank(stageLog[a]) < Rank(stageLog[b])
    /\ saves <= 1
    /\ saves = 1 => \E a \in 1..Len(stageLog) : stageLog[a] = "aggregation"

C6_Witness ==
    /\ outcome = "written"
    /\ stageLog = <<"auth", "annual views", "playlist", "listing", "stats",
                    "aggregation", "persistence">>

\* C7: when get_annual_views has returned, its mapping has exactly the years
\* of the range as keys, 0 for a year whose call failed and the total the
\* call returned for a year whose call gave one; a failed call is followed
\* by the call of the next year
C7_AnnualViews ==
    /\ [](year > EndYear =>
            /\ DOMAIN annual_views = Years
            /\ \A y \in Years :
                 /\ reported[y].kind = "fail" => annual_views[y] = 0
                 /\ reported[y].kind = "rows" => annual_views[y] = reported[y].total)
    /\ [][(pc = "annual" /\ year < EndYear /\ year \in DOMAIN reported'
           /\ reported'[year].kind = "fail")
            => (pc' = "annual" /\ year' = year + 1
                /\ annual_views'[year] = 0)]_vars

C7_Witness ==
    /\ year > EndYear
    /\ reported[StartYear].kind = "fail"
    /\ reported[EndYear].kind = "rows"
    /\ annual_views[EndYear] = 7

\* C8: once a page call has failed, no further page call is issued, the
\* exception does not reach main, and the mapping returned holds exactly the
\* items of the pages served before, each under its year
C8_PageFailure ==
    lastPage = "fail" =>
        /\ pc # "listing"
        /\ outcome # "HttpError"
        /\ Keys(videos_by_year) = ServedYears
        /\ \A y \in ServedYears : Get(videos_by_year, y) = ServedIn(y)
        /\ channel_data.videos_by_year = videos_by_year

C8_Witness == lastPage = "fail" /\ pageCalls = 2 /\ Len(served) > 0

C8_WitnessFirstPage == lastPage = "fail" /\ pageCalls = 1 /\ videos_by_year = <<>>

\* C9: the first page call carries no cursor, a later one the cursor of the
\* response before it, after the delay was slept; the listing goes on after
\* a response with a cursor and stops at one without; the items of each
\* bucket are in the order the pages served them
C9_CursorProtocol ==
    /\ pageCalls = 1 => (sentToken = NoCursor /\ respBefore = NoCursor)
    /\ pageCalls >= 1 => sentToken = respBefore
    /\ pageCalls = 2 => (respBefore \in Cursors /\ sleptBefore)
    /\ lastPage = "cursor" => pc = "listing"
    /\ lastPage = "end" => pc # "listing"
    /\ \A n \in 1..Len(videos_by_year) :
         videos_by_year[n].v = ServedIn(videos_by_year[n].k)

C9_Witness ==
    /\ pageCalls = 2
    /\ lastPage = "end"
    /\ Len(served) = 2
    /\ sentToken \in Cursors

\* C10, the claim: in every run get_videos_by_year returns
C10_AlwaysTerminates == (pc = "listing") ~> (pc # "listing")

\* C10, amended: get_videos_by_year returns in every run in which the
\* remote does not answer with a continuation cursor for ever, that is in
\* which some page call fails or gives no cursor
C10_TerminatesUnlessCursorForEver ==
    []<>(lastPage # "cursor") => ((pc = "listing") ~> (pc # "listing"))

C10_Witness == pc # "listing" /\ pageCalls = 2 /\ lastPage = "end"

RECURSIVE Flat(_)
\* the batches of a log, one after the other
Flat(batches) == IF Len(batches) = 0 THEN <<>>
                 ELSE batches[1] \o Flat(Tail(batches))

\* the bucket of the call of get_video_stats that is running or has just
\* returned, and whether it has returned
CallBucket == IF i > 0 \/ batchResult = "raised" THEN bucket ELSE bucket - 1
CallReturned == i = 0 /\ batchResult \in {"ok", "fail"}
CeilDiv(n, d) == (n + d - 1) \div d
Elements(seq) == {seq[n] : n \in 1..Len(seq)}

C12_FailedBatchIsolated ==
    [][(pc = "stats" /\ batchResult' = "fail")
        => /\ pc' # "aborted"
           /\ outcome' = outcome
           /\ IF i + BatchSize < Len(videos_by_year[bucket].v)
              THEN /\ stats' = stats
                   /\ pc' = "stats"
                   /\ bucket' = bucket
                   /\ i' = i + BatchSize
              ELSE /\ year_stats' = stats
                   /\ all_video_stats' = Update(all_video_stats, stats)]_vars

C12_Witness ==
    /\ batchResult = "fail"
    /\ CallReturned
    /\ Len(requested) = 2
    /\ year_stats # <<>>

C12_WitnessLaterBatch == batchResult = "fail" /\ i > 0 /\ pc = "stats"

\* C13: for a text PT[hH][mM][sS] written from numbers h, m and s, any of
\* them absent, parse_duration returns h * 3600 + m * 60 + s with an absent
\* component counted as 0
C13_SumOfComponents ==
    (duration_seconds.done /\ duration_parts.form = "hms") =>
        /\ ~duration_seconds.raised
        /\ duration_seconds.value = DecVal(duration_parts.h) * 3600
                                    + DecVal(duration_parts.m) * 60
                                    + DecVal(duration_parts.s)

\* PT1H30M15S gives 5415
C13_Witness ==
    /\ duration_seconds.done
    /\ duration_iso = <<"P", "T", "1", "H", "3", "0", "M", "1", "5", "S">>
    /\ duration_seconds.value = 5415

C13_WitnessSecondsOnly ==
    /\ duration_seconds.done
    /\ duration_iso = <<"P", "T", "4", "5", "S">>
    /\ duration_seconds.value = 45

C13_WitnessNoComponent ==
    /\ duration_seconds.done
    /\ duration_iso = <<"P", "T">>
    /\ duration_seconds.value = 0

\* C14: parse_duration returns an integer for every text and never raises
C14_NeverRaises == duration_seconds.done => ~duration_seconds.raised

\* a day component alone is dropped; followed by an hour component it makes
\* int() fail
C14_DayAloneDropped ==
    (duration_seconds.done /\ duration_parts.form = "days"
     /\ duration_parts.h = <<>> /\ duration_parts.m = <<>> /\ duration_parts.s = <<>>)
        => (~duration_seconds.raised /\ duration_seconds.value = 0)

C14_RaisesOnP1DT2H ==
    /\ duration_seconds.done
    /\ duration_iso = <<"P", "1", "D", "T", "2", "H">>
    /\ duration_seconds.raised

\* the place of entry p of d in a stable descending sort by metric
Place(d, metric, p) ==
    1 + Cardinality({q \in 1..Len(d) :
                       \/ MetricOf(d[q].v, metric) > MetricOf(d[p].v, metric)
                       \/ /\ MetricOf(d[q].v, metric) = MetricOf(d[p].v, metric)
                          /\ q < p})

\* C15: get_top_videos returns min(TopLimit, number of records) entries,
\* non-increasing by the metric; entry k is the record whose place in a
\* stable descending sort of the input is k, so that records with equal
\* values keep their input order
C15_StableTop ==
    rank_result.metric # "none" =>
        LET d == rank_stats
            metric == rank_result.metric
            top == rank_result.top
        IN  /\ Len(top) = (IF Len(d) < TopLimit THEN Len(d) ELSE TopLimit)
            /\ \A k \in 1..(Len(top) - 1) :
                 MetricOf(top[k].data, metric) >= MetricOf(top[k + 1].data, metric)
            /\ \A k \in 1..Len(top) :
                 \E p \in 1..Len(d) :
                   /\ Place(d, metric, p) = k
                   /\ top[k] = [video_id |-> d[p].k, data |-> d[p].v]

\* more records than the limit, and a tie among those returned
C15_Witness ==
    /\ rank_result.metric = "likes"
    /\ Len(rank_stats) > TopLimit
    /\ Len(rank_result.top) = TopLimit
    /\ rank_result.top[1].data.likes = rank_result.top[2].data.likes
    /\ rank_result.top[1].video_id = "v2"

\* the number of times v occurs in seq
Occurrences(seq, v) == Cardinality({n \in 1..Len(seq) : seq[n] = v})

\* C16: every identifier in a bucket of videos_by_year was published in
\* the year that is the bucket's key, the first four characters of its
\* publication timestamp; a listed identifier is in one bucket only, as
\* many times as the listing served it
C16_YearBuckets ==
    /\ \A n \in 1..Len(videos_by_year) :
         /\ \A j \in 1..Len(videos_by_year[n].v) :
              videos_by_year[n].k
                  = SubSeq(Catalog(videos_by_year[n].v[j]).publishedAt, 1, 4)
         /\ \A m \in 1..Len(videos_by_year) :
              videos_by_year[m].k = videos_by_year[n].k => m = n
    /\ \A v \in Elements(served) :
         /\ Cardinality({n \in 1..Len(videos_by_year) :
                           v \in Elements(videos_by_year[n].v)}) = 1
         /\ \E n \in 1..Len(videos_by_year) :
              Occurrences(videos_by_year[n].v, v) = Occurrences(served, v)

\* two pages, videos of two years
C16_Witness ==
    /\ pageCalls = 2
    /\ Len(served) = 2
    /\ Len(videos_by_year) = 2
    /\ videos_by_year[1].k = <<"2", "0", "2", "3">>
    /\ videos_by_year[2].k = <<"2", "0", "2", "2">>

C16_WitnessSameYear ==
    /\ Len(videos_by_year) = 1
    /\ videos_by_year[1].v = <<"v3", "v1">>

\* C18: a loaded credential that is expired and has a refresh token is
\* refreshed, and no credential is refreshed twice; after a refresh that
\* failed creds is None and the consent branch of line 123 is entered, so
\* the services are never built with the stored credential; after a
\* refresh that succeeded the services are built and no consent flow runs
C18_RefreshOnce ==
    /\ [](/\ refreshes <= 1
          /\ (pc = "auth_refresh" => refreshes = 0)
          /\ (creds.origin = "refreshed" => consents = 0)
          /\ (services.built /\ refreshes = 1
                => services.creds.origin \in {"refreshed", "consent"}))
    /\ [][/\ (pc = "auth_load" /\ CanRefresh(LoadCreds(tokenFile)))
               => pc' = "auth_refresh"
          /\ pc = "auth_refresh"
               => /\ refreshes' = refreshes + 1
                  /\ creds' # RefreshedCreds
                       => (creds' = NoCreds /\ pc' = "auth_consent")
                  /\ creds' = RefreshedCreds
                       => (pc' = "auth_build" /\ consents' = 0)]_vars

\* the refresh failed and the consent flow gave the credential used
C18_Witness ==
    /\ refreshes = 1
    /\ consents = 1
    /\ services.built
    /\ services.creds.origin = "consent"

C18_WitnessRefreshed ==
    /\ refreshes = 1
    /\ consents = 0
    /\ services.built
    /\ services.creds.origin = "refreshed"

\* C19: the delay is slept after every batch call of get_video_stats,
\* whether it succeeded or failed
C19_DelayAfterEveryBatch == batchResult \in {"ok", "fail"} => statsSlept

\* the delay is slept after the batch calls that succeed
C19_DelayAfterSuccess == batchResult = "ok" => statsSlept

C19_NoDelayAfterFailure == batchResult = "fail" /\ ~statsSlept /\ pc = "stats"

\* C20: a report without rows, the field absent or an empty list, is
\* recorded as 0 views for its year and get_annual_views goes on with the
\* next year
C20_NoRowsIsZero ==
    \A y \in DOMAIN reported :
        reported[y].kind \in {"norows", "emptyrows"} =>
            /\ y \in DOMAIN annual_views
            /\ annual_views[y] = 0
            /\ year > y
            /\ outcome # "IndexError"

\* it is so when the rows field is absent
C20_AbsentRowsIsZero ==
    \A y \in DOMAIN reported :
        reported[y].kind = "norows" =>
            /\ y \in DOMAIN annual_views
            /\ annual_views[y] = 0
            /\ year > y

C20_EmptyRowsAborts ==
    /\ pc = "aborted"
    /\ outcome = "IndexError"
    /\ reported[year].kind = "emptyrows"
    /\ year \notin DOMAIN annual_views

\* the token storage holds a credential that was stored before the run
\* and is valid
StoredValid ==
    /\ tokenFile.state = "cred"
    /\ tokenFile.cred.origin = "stored"
    /\ Valid(tokenFile.cred)

\* C21: when the token storage holds a valid credential,
\* get_authenticated_services goes from the load to the build of the
\* services with that credential; it does no refresh, starts no consent
\* flow, and no step of the run writes the token storage
C21_ValidCredentialKept ==
    /\ [](StoredValid =>
            /\ refreshes = 0
            /\ consents = 0
            /\ pc \notin {"auth_refresh", "auth_consent"}
            /\ pc # "auth_load" => creds = tokenFile.cred
            /\ services.built => services.creds = tokenFile.cred)
    /\ [][StoredValid =>
            /\ tokenFile' = tokenFile
            /\ pc = "auth_load" => pc' = "auth_build"]_vars

C21_Witness ==
    /\ StoredValid
    /\ services.built
    /\ services.creds = tokenFile.cred
    /\ pc = "annual"

\* the identifiers in the buckets of a year -> identifiers mapping
Listed(vby) == UNION {Elements(vby[n].v) : n \in 1..Len(vby)}

\* C22: in a written snapshot every key of video_stats is an identifier of
\* some bucket of videos_by_year, and for each metric top_videos has
\* min(TopLimit, number of keys of video_stats) entries, their identifiers
\* pairwise distinct, each a key of video_stats with that key's record
C22_SnapshotConsistent ==
    outputFile.content = "snapshot" =>
        LET data == outputFile.data
        IN  /\ Keys(data.video_stats) \subseteq Listed(data.videos_by_year)
            /\ \A metric \in Metrics :
                 LET top == data.top_videos[metric]
                 IN  /\ Len(top) = (IF Len(data.video_stats) < TopLimit
                                    THEN Len(data.video_stats) ELSE TopLimit)
                     /\ \A j \in 1..Len(top), k \in 1..Len(top) :
                          top[j].video_id = top[k].video_id => j = k
                     /\ \A k \in 1..Len(top) :
                          /\ HasKey(data.video_stats, top[k].video_id)
                          /\ top[k].data = Get(data.video_stats, top[k].video_id)

\* a snapshot with more records than the limit, written after a batch
\* whose response left out a listed identifier
C22_Witness ==
    /\ outputFile.content = "snapshot"
    /\ Len(outputFile.data.video_stats) > TopLimit
    /\ Len(outputFile.data.top_videos.views) = TopLimit
    /\ "v3" \in Listed(outputFile.data.videos_by_year)

\* a snapshot written after a batch call that failed
C22_WitnessFailedBatch ==
    /\ outputFile.content = "snapshot"
    /\ batchResult = "fail"
    /\ Len(outputFile.data.video_stats) = 1
    /\ Cardinality(Listed(outputFile.data.videos_by_year)) = 3

====
